---- MODULE Spec2Model ----
(***************************************************************************)
(* Model of domain_checker.py: an interactive WHOIS availability checker.  *)
(* Python strings are modelled as sequences of one-character strings, so   *)
(* that strip, lower, split, rsplit, sorted, substring search and strftime *)
(* are computed rather than assumed.  Status values and the keys of the    *)
(* result dict are plain identifiers, since the program only compares them *)
(* for equality.                                                           *)
(***************************************************************************)
EXTENDS Integers, Sequences, FiniteSets, TLC

VARIABLES
    pc,            \* position of main(): "start", "prompt", "loop", "done",
                   \* "aborted" (uncaught exception); "call", "returned" for a
                   \* direct call of check_domain
    name_input,    \* main: name_input
    base_name,     \* main: base_name (check_domain: domain_name)
    tlds_to_check, \* main: tlds_to_check
    tlds_list,     \* main: tlds_list
    i,             \* main: number of loop iterations completed
    results,       \* main: results, as a set of <<full_domain, result>> items
    output,        \* the lines printed so far
    sleeps,        \* total seconds slept, as a list of the loop index of each sleep
    whois_calls,   \* the domains whois.whois was called with, in order
    checked,       \* the (domain_name, tld) pairs check_domain was called with
    raw_name,      \* what the first input() returned, before strip and lower
    prompts,       \* number of input() calls made
    last_w,        \* what the resolver did on the latest query
    last_result    \* the dict the latest check_domain call returned

vars == <<pc, name_input, base_name, tlds_to_check, tlds_list, i, results,
          output, sleeps, whois_calls, checked, raw_name, prompts, last_w,
          last_result>>

-----------------------------------------------------------------------------
(* Python str primitives *)

\* The printable ASCII characters in code-point order, from 32 to 126.  The
\* double quote (34) and the backtick (96) are held by placeholders that no
\* character of a modelled string equals; they keep the positions right.
Ascii ==
 <<
    " ", "!", "QUOTE", "#", "$", "%", "&", "'", "(", ")", "*", "+", ",", "-",
    ".", "/", "0", "1", "2", "3", "4", "5", "6", "7", "8", "9", ":", ";",
    "<", "=", ">", "?", "@", "A", "B", "C", "D", "E", "F", "G", "H", "I",
    "J", "K", "L", "M", "N", "O", "P", "Q", "R", "S", "T", "U", "V", "W",
    "X", "Y", "Z", "[", "\\", "]", "^", "_", "BACKTICK", "a", "b", "c", "d", "e",
    "f", "g", "h", "i", "j", "k", "l", "m", "n", "o", "p", "q", "r", "s",
    "t", "u", "v", "w", "x", "y", "z", "{", "|", "}", "~"
 >>

\* ord(c), tabulated.
CodePoint == [c \in {Ascii[k] : k \in 1..Len(Ascii)} |->
                 31 + (CHOOSE k \in 1..Len(Ascii) : Ascii[k] = c)]

ord(c) == CodePoint[c]

\* c.lower(), tabulated: the letters A-Z (65-90) move up by 32.
LowerOf == [c \in DOMAIN CodePoint |->
               IF CodePoint[c] >= 65 /\ CodePoint[c] <= 90
               THEN Ascii[CodePoint[c] + 32 - 31] ELSE c]

lower_char(c) == LowerOf[c]

lower(s) == [k \in 1..Len(s) |-> lower_char(s[k])]

isspace(c) == c \in {" ", "\t", "\n", "\r"}

RECURSIVE lstrip(_)
lstrip(s) == IF s # <<>> /\ isspace(Head(s)) THEN lstrip(Tail(s)) ELSE s

RECURSIVE rstrip(_)
rstrip(s) ==
    IF s # <<>> /\ isspace(s[Len(s)]) THEN rstrip(SubSeq(s, 1, Len(s) - 1)) ELSE s

strip_identity(s) == s

strip(s) == rstrip(lstrip(s))

startswith(s, p) == Len(s) >= Len(p) /\ SubSeq(s, 1, Len(p)) = p

\* Python's `sub in s`.
contains(s, sub) ==
    \E k \in 0..(Len(s) - Len(sub)) : SubSeq(s, k + 1, k + Len(sub)) = sub

\* str.split() without arguments: the maximal runs of non-whitespace.
RECURSIVE split_from(_, _, _)
split_from(s, cur, acc) ==
    IF s = <<>>
    THEN IF cur = <<>> THEN acc ELSE Append(acc, cur)
    ELSE IF isspace(Head(s))
         THEN split_from(Tail(s), <<>>, IF cur = <<>> THEN acc ELSE Append(acc, cur))
         ELSE split_from(Tail(s), Append(cur, Head(s)), acc)

split(s) == split_from(s, <<>>, <<>>)

\* s.rsplit(sep, 1): cut at the last occurrence of the character sep.
rsplit1(s, sep) ==
    IF \E k \in 1..Len(s) : s[k] = sep
    THEN LET last == CHOOSE k \in 1..Len(s) :
                         s[k] = sep /\ \A j \in (k + 1)..Len(s) : s[j] # sep
         IN  <<SubSeq(s, 1, last - 1), SubSeq(s, last + 1, Len(s))>>
    ELSE <<s>>

\* s.split(sep, 1): cut at the first occurrence (a variant, not used by main).
split1(s, sep) ==
    IF \E k \in 1..Len(s) : s[k] = sep
    THEN LET first == CHOOSE k \in 1..Len(s) :
                          s[k] = sep /\ \A j \in 1..(k - 1) : s[j] # sep
         IN  <<SubSeq(s, 1, first - 1), SubSeq(s, first + 1, Len(s))>>
    ELSE <<s>>

\* str comparison: lexicographic by code point.
RECURSIVE str_lt(_, _)
str_lt(a, b) ==
    IF b = <<>> THEN FALSE
    ELSE IF a = <<>> THEN TRUE
    ELSE IF Head(a) = Head(b) THEN str_lt(Tail(a), Tail(b))
    ELSE ord(Head(a)) < ord(Head(b))

\* sorted(list(S)) for a set of str.
RECURSIVE sorted(_)
sorted(S) ==
    IF S = {} THEN <<>>
    ELSE LET m == CHOOSE x \in S : \A y \in S \ {x} : str_lt(x, y)
         IN  <<m>> \o sorted(S \ {m})

Digits == <<"0", "1", "2", "3", "4", "5", "6", "7", "8", "9">>

\* The decimal digits of n, zero-padded to at least `width` characters.
RECURSIVE zero_pad(_, _)
zero_pad(n, width) ==
    IF n < 10 /\ width <= 1 THEN <<Digits[n + 1]>>
    ELSE Append(zero_pad(n \div 10, width - 1), Digits[(n % 10) + 1])

-----------------------------------------------------------------------------
(* Values the resolver hands back *)

\* A Python object held in a field of the WHOIS record: None, a str, a
\* datetime.date or a datetime.datetime (t gives the class; the other fields
\* are zero when the class does not have them).
PyNone == [t |-> "NoneType", s |-> <<>>, ymd |-> <<0, 0, 0>>, hms |-> <<0, 0, 0>>]

PyStr(s) == [t |-> "str", s |-> s, ymd |-> <<0, 0, 0>>, hms |-> <<0, 0, 0>>]

PyDate(y, m, d) == [t |-> "date", s |-> <<>>, ymd |-> <<y, m, d>>, hms |-> <<0, 0, 0>>]

PyDatetime(y, m, d, H, M, S) ==
    [t |-> "datetime", s |-> <<>>, ymd |-> <<y, m, d>>, hms |-> <<H, M, S>>]

\* An attribute of the record: missing (hasattr is False), one object, or a
\* list of objects.
NoAttr == [has |-> FALSE, list |-> FALSE, items |-> <<>>]

Attr(obj) == [has |-> TRUE, list |-> FALSE, items |-> <<obj>>]

AttrList(objs) == [has |-> TRUE, list |-> TRUE, items |-> objs]

\* Python truth value of an object / of an attribute that exists.
truthy_obj(o) ==
    CASE o.t = "NoneType" -> FALSE
      [] o.t = "str"      -> o.s # <<>>
      [] OTHER            -> TRUE

truthy(a) == IF a.list THEN a.items # <<>> ELSE truthy_obj(a.items[1])

strftime_date(o) ==
    zero_pad(o.ymd[1], 4) \o <<"-">> \o zero_pad(o.ymd[2], 2) \o <<"-">>
        \o zero_pad(o.ymd[3], 2)

strftime_datetime(o) ==
    strftime_date(o) \o <<" ">> \o zero_pad(o.hms[1], 2) \o <<":">>
        \o zero_pad(o.hms[2], 2) \o <<":">> \o zero_pad(o.hms[3], 2)

\* str(obj) for the objects above.
str(o) ==
    CASE o.t = "NoneType" -> <<"N", "o", "n", "e">>
      [] o.t = "str"      -> o.s
      [] o.t = "date"     -> strftime_date(o)
      [] o.t = "datetime" -> strftime_datetime(o)

NA == <<"N", "/", "A">>

-----------------------------------------------------------------------------
(* format_date *)

format_date(date_obj) ==
    LET o == IF date_obj.list
             THEN IF date_obj.items # <<>> THEN date_obj.items[1] ELSE PyNone
             ELSE date_obj.items[1]
    IN  IF o.t = "datetime" THEN strftime_datetime(o)
        ELSE IF o.t = "date" THEN strftime_date(o)
        ELSE str(o)

-----------------------------------------------------------------------------
(* check_domain *)

KNOWN_PROBLEMATIC_TLDS ==
    {
      <<".", "i", "o">>,
      <<".", "c", "o">>,
      <<".", "a", "i">>,
      <<".", "g", "g">>,
      <<".", "s", "o">>,
      <<".", "i", "s">>
    }

AvailablePhrases ==
    { <<"n", "o", " ", "m", "a", "t", "c", "h", " ", "f", "o", "r">>,
      <<"n", "o", " ", "w", "h", "o", "i", "s", " ", "s", "e", "r", "v", "e", "r", " ", "i", "s", " ", "k", "n", "o", "w", "n", " ", "f", "o", "r">>,
      <<"d", "o", "m", "a", "i", "n", " ", "n", "o", "t", " ", "f", "o", "u", "n", "d">> }

\* What whois.whois(full_domain) does: it returns a record, raises
\* whois.parser.PywhoisError, or raises some other Exception.
Record(domain_name, registrar, creation_date, updated_date) ==
    [kind |-> "record", msg |-> <<>>, domain_name |-> domain_name,
     registrar |-> registrar, creation_date |-> creation_date,
     updated_date |-> updated_date]

Raise(kind, msg) ==
    [kind |-> kind, msg |-> msg, domain_name |-> NoAttr, registrar |-> NoAttr,
     creation_date |-> NoAttr, updated_date |-> NoAttr]

NoQuery == Raise("none", <<>>)

AttributeErrorMsg ==
    <<"'", "W", "h", "o", "i", "s", "E", "n", "t", "r", "y", "'", " ", "o", "b", "j", "e", "c", "t", " ", "h", "a", "s", " ", "n", "o", " ", "a", "t", "t", "r", "i", "b", "u", "t", "e", " ", "'", "d", "o", "m", "a", "i", "n", "_", "n", "a", "m", "e", "'">>

Line(k, a, st) == [k |-> k, a |-> a, st |-> st]

\* The dict check_domain starts from (line 39).
NewResult == [status |-> "Unknown"]

\* tld.lower() in KNOWN_PROBLEMATIC_TLDS, without the lower().
is_known_problematic_exact(tld) == tld \in KNOWN_PROBLEMATIC_TLDS

is_known_problematic(tld) == lower(tld) \in KNOWN_PROBLEMATIC_TLDS

\* The record branch with the `else` left out: the placeholder status stays.
on_record_no_else(w) ==
    IF truthy(w.domain_name)
    THEN [NewResult EXCEPT !.status = "Registered"]
    ELSE NewResult

\* The body of the try block once whois.whois has returned the record w whose
\* domain_name attribute exists: the dict as it stands at the end of the block.
on_record(w) ==
    IF truthy(w.domain_name)
    THEN [status |-> "Registered",
          registrar |-> IF w.registrar.has /\ truthy(w.registrar)
                        THEN str(w.registrar.items[1]) ELSE NA,
          creation_date |-> IF w.creation_date.has
                            THEN format_date(w.creation_date) ELSE NA,
          updated_date |-> IF w.updated_date.has
                           THEN format_date(w.updated_date) ELSE NA]
    ELSE [status |-> "Available"]

\* The PywhoisError handler matching the phrases against str(e) as it is.
on_pywhois_error_case_sensitive(full_domain, e) ==
    IF \E p \in AvailablePhrases : contains(e, p)
    THEN [result |-> [status |-> "Available"], printed |-> <<>>, raised |-> FALSE]
    ELSE [result |-> [status |-> "Error", message |-> e],
          printed |-> <<Line("whois_error", full_domain \o <<":", " ">> \o e, "")>>,
          raised |-> FALSE]

\* except whois.parser.PywhoisError as e, with e given by its str(e).
on_pywhois_error(full_domain, e) ==
    LET error_str == lower(e)
    IN  IF \E p \in AvailablePhrases : contains(error_str, p)
        THEN [result |-> [status |-> "Available"], printed |-> <<>>,
              raised |-> FALSE]
        ELSE [result |-> [status |-> "Error", message |-> e],
              printed |-> <<Line("whois_error", full_domain \o <<":", " ">> \o e, "")>>,
              raised |-> FALSE]

\* check_domain without the `except Exception` clause: the exception leaves
\* the function.
on_exception_uncaught(full_domain, e) ==
    [result |-> NewResult, printed |-> <<>>, raised |-> TRUE]

\* except Exception as e, with e given by its str(e).
on_exception(full_domain, e) ==
    [result |-> [status |-> "Error", message |-> e],
     printed |-> <<Line("unexpected_error", full_domain \o <<":", " ">> \o e, "")>>,
     raised |-> FALSE]

\* check_domain(domain_name, tld) when the resolver, if it is asked, does w.
\* result: the dict returned; queried: the arguments of the whois.whois calls
\* made; printed: the lines printed; raised: whether an exception left the
\* function instead of a return.
check_domain(domain_name, tld, w) ==
    LET full_domain == domain_name \o tld
        checking    == <<Line("checking", full_domain, "")>>
    IN  IF is_known_problematic(tld)
        THEN [result |-> [status |-> "Skipped"], queried |-> <<>>,
              printed |-> <<Line("skipping", full_domain, "")>>, raised |-> FALSE]
        ELSE LET h == CASE w.kind = "PywhoisError" -> on_pywhois_error(full_domain, w.msg)
                        [] w.kind = "Exception" -> on_exception(full_domain, w.msg)
                        [] w.kind = "record" /\ ~w.domain_name.has ->
                               on_exception(full_domain, AttributeErrorMsg)
                        [] OTHER -> [result |-> on_record(w), printed |-> <<>>,
                                     raised |-> FALSE]
             IN  [result |-> h.result, queried |-> <<full_domain>>,
                  printed |-> checking \o h.printed, raised |-> h.raised]

-----------------------------------------------------------------------------
(* main: the Input Resolver *)

DefaultTlds == {<<".", "c", "o", "m">>, <<".", "n", "e", "t">>, <<".", "o", "r", "g">>}

\* Lines 109-127 cutting at the first dot instead of the last.
parse_name_first_dot(name) ==
    LET parts == split1(name, ".")
    IN  IF \E k \in 1..Len(name) : name[k] = "."
        THEN IF Len(parts) = 2 /\ parts[1] # <<>> /\ parts[2] # <<>>
             THEN [base_name |-> parts[1], tlds_to_check |-> {<<".">> \o parts[2]},
                   process_further_tlds |-> FALSE, warning |-> FALSE]
             ELSE [base_name |-> name, tlds_to_check |-> {},
                   process_further_tlds |-> TRUE, warning |-> TRUE]
        ELSE [base_name |-> name, tlds_to_check |-> {},
              process_further_tlds |-> TRUE, warning |-> FALSE]

\* Lines 109-127: base name and TLD set from a non-empty name_input.
parse_name(name) ==
    LET parts == rsplit1(name, ".")
    IN  IF \E k \in 1..Len(name) : name[k] = "."
        THEN IF Len(parts) = 2 /\ parts[1] # <<>> /\ parts[2] # <<>>
             THEN [base_name |-> parts[1], tlds_to_check |-> {<<".">> \o parts[2]},
                   process_further_tlds |-> FALSE, warning |-> FALSE]
             ELSE [base_name |-> name, tlds_to_check |-> {},
                   process_further_tlds |-> TRUE, warning |-> TRUE]
        ELSE [base_name |-> name, tlds_to_check |-> {},
              process_further_tlds |-> TRUE, warning |-> FALSE]

\* One element of the set comprehension of lines 134-136.
normalize_tld(tld) ==
    IF startswith(strip(tld), <<".">>) THEN strip(tld) ELSE <<".">> \o lower(strip(tld))

\* Lines 134-136: the set built from the stripped, non-empty answer.
additional_tlds(additional_tlds_input) ==
    LET toks == split(additional_tlds_input)
    IN  {normalize_tld(toks[k]) : k \in {j \in 1..Len(toks) : strip(toks[j]) # <<>>}}

\* Lines 148-150: the summary printed before the loop.
Summary(base, list) ==
    <<Line("checking_base_name", base, ""),
      Line("against_tlds", <<>>, ""),
      Line("delay", <<>>, "")>>

-----------------------------------------------------------------------------
(* Inputs *)

MaxNameLen == 3

MaxTokens == 3

SeqsUpTo(A, n) == UNION {[1..k -> A] : k \in 0..n}

\* What the user may type at the first prompt: every string over an
\* upper-case letter, the dot and the blank up to MaxNameLen characters, and
\* two longer names.
NameAlphabet == {"A", ".", " "}

ExtraNames == { <<"a", ".", "B", ".", "i", "o">>,
                <<" ", "E", "x", ".", "C", "o", "m", " ">> }

NameInputs == SeqsUpTo(NameAlphabet, MaxNameLen) \cup ExtraNames

\* What the user may type at the TLD prompt: up to MaxTokens tokens separated
\* by one blank, a blank line, and a line with surrounding and repeated blanks.
TldTokens ==
    { <<".", "C", "O", "M">>, <<"C", "O", "M">>, <<".", "c", "o", "m">>,
      <<".">>, <<".", "i", "o">>, <<".", "n", "e", "t">> }

RECURSIVE join(_)
join(toks) ==
    IF toks = <<>> THEN <<>>
    ELSE IF Len(toks) = 1 THEN toks[1]
    ELSE toks[1] \o <<" ">> \o join(Tail(toks))

ExtraTldInputs == { <<" ", " ">>,
                    <<" ", ".", "i", "o", " ", " ", " ", "C", "O", "M", " ">> }

TldInputs == {join(ts) : ts \in SeqsUpTo(TldTokens, MaxTokens)} \cup ExtraTldInputs

\* Fields of a WHOIS record.
Date1 == PyDate(2020, 1, 1)

Datetime1 == PyDatetime(2021, 12, 31, 23, 59, 5)

DateFields ==
    { NoAttr, Attr(PyNone), Attr(Date1), Attr(Datetime1),
      Attr(PyStr(<<"2", "0", "1", "9", "-", "0", "5", "-", "0", "5", "T", "0", "0", ":", "0", "0">>)),
      AttrList(<<>>), AttrList(<<Date1>>), AttrList(<<Datetime1, Date1>>) }

DomainNameFields ==
    { NoAttr, Attr(PyNone), Attr(PyStr(<<>>)), Attr(PyStr(<<"E", "X", "A", "M", "P", "L", "E", ".", "C", "O", "M">>)),
      AttrList(<<>>), AttrList(<<PyStr(<<"E", "X", "A", "M", "P", "L", "E", ".", "C", "O", "M">>), PyStr(<<"e", "x", "a", "m", "p", "l", "e", ".", "c", "o", "m">>)>>) }

RegistrarFields == { NoAttr, Attr(PyNone), Attr(PyStr(<<>>)), Attr(PyStr(<<"R", "e", "g", " ", "I", "n", "c">>)) }

Records ==
    { Record(dn, rg, cd, ud) :
        dn \in DomainNameFields, rg \in RegistrarFields,
        cd \in DateFields, ud \in DateFields }

\* Messages of the exceptions the resolver raises.
Messages ==
    { <<>>,
      <<"N", "o", " ", "m", "a", "t", "c", "h", " ", "f", "o", "r", " ", "E", "X", "A", "M", "P", "L", "E", ".", "C", "O", "M">>,
      <<"N", "O", " ", "M", "A", "T", "C", "H", " ", "F", "O", "R", " ", "a", ".", "c", "o", "m">>,
      <<"N", "o", " ", "w", "h", "o", "i", "s", " ", "s", "e", "r", "v", "e", "r", " ", "i", "s", " ", "k", "n", "o", "w", "n", " ", "f", "o", "r", " ", "t", "h", "i", "s", " ", "k", "i", "n", "d", " ", "o", "f", " ", "o", "b", "j", "e", "c", "t">>,
      <<"D", "o", "m", "a", "i", "n", " ", "n", "o", "t", " ", "f", "o", "u", "n", "d">>,
      <<"d", "o", "m", "a", "i", "n", " ", "n", "o", "t", " ", "f", "o", "u", "n">>,
      <<"t", "i", "m", "e", "d", " ", "o", "u", "t">>,
      <<"n", "o", " ", "m", "a", "t", "c", "h">> }

ResolverOutcomes ==
    Records \cup {Raise(kind, m) : kind \in {"PywhoisError", "Exception"}, m \in Messages}

\* The resolver's behaviours drawn on during a whole session: one of each
\* kind of outcome check_domain tells apart.
SessionOutcomes ==
    { Record(Attr(PyStr(<<"E", "X", "A", "M", "P", "L", "E", ".", "C", "O", "M">>)), Attr(PyStr(<<"R", "e", "g", " ", "I", "n", "c">>)), AttrList(<<Date1>>), Attr(PyNone)),
      Record(Attr(PyNone), Attr(PyNone), Attr(PyNone), Attr(PyNone)),
      Raise("PywhoisError", <<"t", "i", "m", "e", "d", " ", "o", "u", "t">>),
      Raise("Exception", <<"t", "i", "m", "e", "d", " ", "o", "u", "t">>) }

\* Arguments of a direct call of check_domain.
CallNames == { <<"a">>, <<"e", "x", ".", "a">> }

CallTlds ==
    KNOWN_PROBLEMATIC_TLDS \cup
    { <<".", "c", "o", "m">>, <<".", "C", "O", "M">>, <<".", "I", "O">>, <<".", "A", "i">>,
      <<".">>, <<".", "i">>, <<".", "i", "o", "o">>, <<"i", "o">>,
      <<".", "G", "G">>, <<".", "c", "O">> }

-----------------------------------------------------------------------------
(* State machine *)

NoResult == [status |-> "none"]

Init ==
    /\ pc = "start"
    /\ name_input = <<>>
    /\ base_name = <<>>
    /\ tlds_to_check = {}
    /\ tlds_list = <<>>
    /\ i = 0
    /\ results = <<>>
    /\ output = <<Line("banner", <<>>, "")>>
    /\ sleeps = <<>>
    /\ whois_calls = <<>>
    /\ checked = <<>>
    /\ raw_name = <<>>
    /\ prompts = 0
    /\ last_w = NoQuery
    /\ last_result = NoResult

\* Lines 92-127, and lines 145-150 when no TLD prompt follows: the first
\* input() and everything up to the next blocking call or the return.
ReadNameInput ==
    /\ pc = "start"
    /\ \E raw \in NameInputs :
         LET name == lower(strip(raw))
             p    == parse_name(name)
             warn == IF p.warning THEN <<Line("warning", name, "")>> ELSE <<>>
         IN  /\ raw_name' = raw
             /\ prompts' = prompts + 1
             /\ name_input' = name
             /\ IF name = <<>>
                THEN /\ output' = Append(output, Line("error_empty", <<>>, ""))
                     /\ pc' = "done"
                     /\ UNCHANGED <<base_name, tlds_to_check, tlds_list>>
                ELSE /\ base_name' = p.base_name
                     /\ tlds_to_check' = p.tlds_to_check
                     /\ IF p.process_further_tlds
                        THEN /\ pc' = "prompt"
                             /\ output' = output \o warn
                             /\ UNCHANGED tlds_list
                        ELSE /\ pc' = "loop"
                             /\ tlds_list' = sorted(p.tlds_to_check)
                             /\ output' = output \o warn
                                    \o Summary(p.base_name, sorted(p.tlds_to_check))
    /\ UNCHANGED <<i, results, sleeps, whois_calls, checked, last_w, last_result>>

\* Lines 131-150: the TLD prompt, the working set, the sorted list.
ReadTldInput ==
    /\ pc = "prompt"
    /\ \E raw \in TldInputs :
         LET additional_tlds_input == strip(raw)
             tlds == IF additional_tlds_input # <<>>
                     THEN tlds_to_check \cup additional_tlds(additional_tlds_input)
                     ELSE DefaultTlds
             note == IF additional_tlds_input # <<>> THEN <<>>
                     ELSE <<Line("defaults", <<>>, "")>>
         IN  /\ prompts' = prompts + 1
             /\ tlds_to_check' = tlds
             /\ tlds_list' = sorted(tlds)
             /\ output' = output \o note \o Summary(base_name, sorted(tlds))
    /\ pc' = "loop"
    /\ UNCHANGED <<name_input, base_name, i, results, sleeps, whois_calls, checked,
                   raw_name, last_w, last_result>>

\* Lines 170-178: the status line and the details under it.
ResultLines(full_domain, r) ==
    <<Line("status", full_domain, r.status)>> \o
    (CASE r.status = "Registered" ->
              <<Line("registrar", r.registrar, ""),
                Line("created", r.creation_date, ""),
                Line("updated", r.updated_date, "")>>
       [] r.status = "Error" ->
              <<Line("error_msg", IF "message" \in DOMAIN r THEN r.message
                                  ELSE <<>>, "")>>
       [] OTHER -> <<>>)

\* The sleep condition of line 181 without the test of the status.
should_sleep_ignoring_status(status, idx, n) == idx < n - 1

\* Line 181: whether the iteration with 0-based index idx of n sleeps.
should_sleep(status, idx, n) == status # "Skipped" /\ idx < n - 1

\* results[full_domain] = r
SetItem(d, key, r) == [x \in DOMAIN d \cup {key} |-> IF x = key THEN r ELSE d[x]]

\* Lines 156-186: one iteration of the loop; i is the 0-based index.
LoopIteration ==
    /\ pc = "loop"
    /\ i < Len(tlds_list)
    /\ LET tld == tlds_list[i + 1] IN
       IF tld = <<>>
       THEN /\ output' = Append(output, Line("invalid_tld", <<>>, ""))
            /\ i' = i + 1
            /\ UNCHANGED <<pc, results, sleeps, whois_calls, checked, last_w,
                           last_result>>
       ELSE \E w \in SessionOutcomes :
              LET full_domain_to_check == base_name \o tld
                  c == check_domain(base_name, tld, w)
                  r == c.result
                  zz == should_sleep(r.status, i, Len(tlds_list))
              IN  /\ checked' = Append(checked, <<base_name, tld>>)
                  /\ whois_calls' = whois_calls \o c.queried
                  /\ last_w' = IF c.queried = <<>> THEN NoQuery ELSE w
                  /\ IF c.raised
                     THEN /\ pc' = "aborted"
                          /\ output' = output \o c.printed
                          /\ UNCHANGED <<i, results, sleeps, last_result>>
                     ELSE /\ pc' = pc
                          /\ last_result' = r
                          /\ results' = SetItem(results, full_domain_to_check, r)
                          /\ output' = output \o c.printed
                                 \o ResultLines(full_domain_to_check, r)
                                 \o (IF zz THEN <<Line("waiting", <<>>, "")>> ELSE <<>>)
                                 \o <<Line("separator", <<>>, "")>>
                          /\ sleeps' = IF zz THEN Append(sleeps, i) ELSE sleeps
                          /\ i' = i + 1
    /\ UNCHANGED <<name_input, base_name, tlds_to_check, tlds_list, raw_name, prompts>>

\* Lines 188-189: the loop is over; the final note.
Finish ==
    /\ pc = "loop"
    /\ i = Len(tlds_list)
    /\ pc' = "done"
    /\ output' = Append(output, Line("note", <<>>, ""))
    /\ UNCHANGED <<name_input, base_name, tlds_to_check, tlds_list, i, results, sleeps,
                   whois_calls, checked, raw_name, prompts, last_w, last_result>>

Next == ReadNameInput \/ ReadTldInput \/ LoopIteration \/ Finish

Spec == Init /\ [][Next]_vars

\* A direct call of check_domain(domain_name, tld), as a test or another
\* caller makes it, with every behaviour of the resolver.
InitCall ==
    /\ pc = "call"
    /\ name_input = <<>>
    /\ base_name = <<>>
    /\ tlds_to_check = {}
    /\ tlds_list = <<>>
    /\ i = 0
    /\ results = <<>>
    /\ output = <<>>
    /\ sleeps = <<>>
    /\ whois_calls = <<>>
    /\ checked = <<>>
    /\ raw_name = <<>>
    /\ prompts = 0
    /\ last_w = NoQuery
    /\ last_result = NoResult

CallCheckDomain ==
    /\ pc = "call"
    /\ \E domain_name \in CallNames, tld \in CallTlds, w \in ResolverOutcomes :
         LET c == check_domain(domain_name, tld, w)
         IN  /\ checked' = Append(checked, <<domain_name, tld>>)
             /\ whois_calls' = whois_calls \o c.queried
             /\ last_w' = IF c.queried = <<>> THEN NoQuery ELSE w
             /\ output' = output \o c.printed
             /\ pc' = IF c.raised THEN "aborted" ELSE "returned"
             /\ last_result' = IF c.raised THEN last_result ELSE c.result
    /\ UNCHANGED <<name_input, base_name, tlds_to_check, tlds_list, i, results, sleeps,
                   raw_name, prompts>>

NextCall == CallCheckDomain

SpecCall == InitCall /\ [][NextCall]_vars

-----------------------------------------------------------------------------
(* Properties *)

Statuses == {"Registered", "Available", "Error", "Skipped"}

IsStatusLine(l) == l.k = "status"

\* The status lines printed so far, in order.
StatusLines == SelectSeq(output, IsStatusLine)

Range(f) == {f[k] : k \in DOMAIN f}

\* The message contains one of the three phrases, compared case-insensitively.
HasAvailablePhrase(m) == \E p \in AvailablePhrases : contains(lower(m), p)

\* C1: a direct call check_domain(domain_name, tld) whose tld, lower-cased, is
\* one of .io .co .ai .gg .so .is returns status Skipped and makes no resolver
\* call; with any other tld it calls the resolver exactly once, with
\* domain_name + tld.
C1_ProblematicTldSkipsResolver ==
    pc # "call" =>
        LET domain_name == checked[1][1]
            tld         == checked[1][2]
        IN  IF lower(tld) \in KNOWN_PROBLEMATIC_TLDS
            THEN pc = "returned" /\ last_result.status = "Skipped" /\ whois_calls = <<>>
            ELSE whois_calls = <<domain_name \o tld>>

C1_Witness ==
    /\ pc = "returned"
    /\ checked[1][2] = <<".", "I", "O">>
    /\ last_result.status = "Skipped"
    /\ whois_calls = <<>>

\* C2: in a session with a non-empty first input no resolver behaviour aborts
\* the loop: after i iterations check_domain has been called for exactly the
\* first i entries of the sorted list, in order, each call has printed exactly
\* one status line, and the session ends only when the whole list is done.
C2_NoFailureAbortsLoop ==
    /\ pc # "aborted"
    /\ (pc \in {"loop", "done"} /\ name_input # <<>>) =>
          /\ checked = [k \in 1..i |-> <<base_name, tlds_list[k]>>]
          /\ Len(StatusLines) = i
          /\ \A k \in 1..i : StatusLines[k].a = base_name \o tlds_list[k]
    /\ (pc = "done" /\ name_input # <<>>) => i = Len(tlds_list)

C2_Witness ==
    /\ pc = "done"
    /\ Len(tlds_list) = 3
    /\ Len(StatusLines) = 3
    /\ StatusLines[1].st = "Error"
    /\ StatusLines[2].st = "Error"
    /\ StatusLines[3].st = "Registered"
    /\ Len(whois_calls) = 3

\* C3: after the TLD prompt was answered every TLD of the working set is
\* lower-cased and begins with a dot, and no two entries differ only in
\* letter case.
C3_TldSetLowerCased ==
    (pc \in {"loop", "done"} /\ prompts = 2) =>
        \A t \in tlds_to_check :
            /\ t = lower(t)
            /\ startswith(t, <<".">>)
            /\ \A u \in tlds_to_check : lower(u) = lower(t) => u = t

NonSkipped == Cardinality({k \in 1..Len(StatusLines) : StatusLines[k].st # "Skipped"})

\* C4 as claimed: at the end of a run the number of sleeps is
\* max(0, number of non-skipped checks - 1).
C4_SleepsAreNonSkippedMinusOne ==
    pc = "done" => Len(sleeps) = (IF NonSkipped = 0 THEN 0 ELSE NonSkipped - 1)

\* C4 as amended: the iteration with 0-based index k sleeps exactly when its
\* result is not Skipped and k is not the last index of the sorted list; each
\* such iteration sleeps once.
C4_SleepAfterNonSkippedNonLast ==
    (pc \in {"loop", "done"} /\ Len(StatusLines) = i) =>
        /\ \A k \in 0..(i - 1) :
               (k \in Range(sleeps)) <=>
                   (StatusLines[k + 1].st # "Skipped" /\ k < Len(tlds_list) - 1)
        /\ Cardinality(Range(sleeps)) = Len(sleeps)
        /\ Range(sleeps) \subseteq 0..(i - 1)

C4_Witness ==
    /\ pc = "done"
    /\ Len(tlds_list) = 3
    /\ Len(StatusLines) = 3
    /\ StatusLines[1].st # "Skipped"
    /\ StatusLines[2].st # "Skipped"
    /\ StatusLines[3].st = "Skipped"
    /\ sleeps = <<0, 1>>

\* C5: check_domain is never called with a TLD that is empty or just ".",
\* and the resolver is never queried for base_name + ".".
C5_DotTldNeverQueried ==
    /\ \A k \in 1..Len(checked) : checked[k][2] \notin {<<>>, <<".">>}
    /\ \A k \in 1..Len(whois_calls) : whois_calls[k] # base_name \o <<".">>

\* C6 as claimed: any failure of the resolver call whose message contains one
\* of the phrases yields Available; every other failure yields Error with the
\* message stored.
C6_AnyFailureWithPhraseIsAvailable ==
    (pc # "call" /\ last_w.kind \in {"PywhoisError", "Exception"}) =>
        IF HasAvailablePhrase(last_w.msg)
        THEN last_result.status = "Available"
        ELSE last_result = [status |-> "Error", message |-> last_w.msg]

\* C6 as amended: a PywhoisError whose message contains one of the phrases
\* yields Available; every other PywhoisError, and every other exception
\* whatever its message, yields Error with the message stored.
C6_ParseFailureWithPhraseIsAvailable ==
    (pc # "call" /\ last_w.kind \in {"PywhoisError", "Exception"}) =>
        IF last_w.kind = "PywhoisError" /\ HasAvailablePhrase(last_w.msg)
        THEN last_result.status = "Available"
        ELSE last_result = [status |-> "Error", message |-> last_w.msg]

C6_Witness ==
    /\ pc = "returned"
    /\ last_w.kind = "PywhoisError"
    /\ last_w.msg = <<"N", "O", " ", "M", "A", "T", "C", "H", " ", "F", "O", "R", " ", "a", ".", "c", "o", "m">>
    /\ last_result.status = "Available"

\* The date string C7 asks for from one attribute of the record.
C7_Expected(a) ==
    IF ~a.has \/ a = Attr(PyNone) THEN NA
    ELSE LET o == a.items[1]
         IN  CASE o.t = "datetime" -> strftime_datetime(o)
               [] o.t = "date"     -> strftime_date(o)
               [] OTHER            -> str(o)

\* C7: in a Registered result creation_date and updated_date are "N/A" when
\* the record's field is None or absent; the first element of a list is the
\* one formatted, a datetime as YYYY-MM-DD HH:MM:SS and a date as YYYY-MM-DD.
C7_DatesNAWhenNoneOrAbsent ==
    (pc = "returned" /\ last_result.status = "Registered") =>
        /\ (last_w.creation_date.list => last_w.creation_date.items # <<>>) =>
               last_result.creation_date = C7_Expected(last_w.creation_date)
        /\ (last_w.updated_date.list => last_w.updated_date.items # <<>>) =>
               last_result.updated_date = C7_Expected(last_w.updated_date)

\* name has a "." with text on both sides of its last ".".
WellFormed(name) ==
    \E k \in 2..(Len(name) - 1) : name[k] = "." /\ \A j \in (k + 1)..Len(name) : name[j] # "."

LastDot(name) == CHOOSE k \in 1..Len(name) : name[k] = "." /\ \A j \in (k + 1)..Len(name) : name[j] # "."

\* C8: when the trimmed, lower-cased first input has text on both sides of
\* its last dot, base_name is the text before that dot, the working set is
\* exactly {"." + the text after it}, only one input() call is ever made and
\* check_domain is called for that one domain only.
C8_FullDomainInput ==
    (pc # "start" /\ WellFormed(name_input)) =>
        LET k    == LastDot(name_input)
            head == SubSeq(name_input, 1, k - 1)
            tail == SubSeq(name_input, k + 1, Len(name_input))
        IN  /\ base_name = head
            /\ tlds_to_check = {<<".">> \o tail}
            /\ tlds_list = <<<<".">> \o tail>>
            /\ prompts = 1
            /\ pc # "prompt"
            /\ checked \in {<<>>, <<<<head, <<".">> \o tail>>>>}
            /\ pc = "done" => Len(checked) = 1

C8_Witness ==
    /\ pc = "done"
    /\ raw_name = <<"a", ".", "B", ".", "i", "o">>
    /\ checked = <<<<<<"a", ".", "b">>, <<".", "i", "o">>>>>>
    /\ prompts = 1

\* C9: when the first input is empty or all whitespace the session is over
\* right after it, with the error message printed last, no TLD prompt, no
\* check_domain call, no resolver query and no sleep.
C9_EmptyInputEndsSession ==
    (pc # "start" /\ \A k \in 1..Len(raw_name) : isspace(raw_name[k])) =>
        /\ pc = "done"
        /\ prompts = 1
        /\ output[Len(output)].k = "error_empty"
        /\ checked = <<>>
        /\ whois_calls = <<>>
        /\ sleeps = <<>>
        /\ DOMAIN results = {}

C9_Witness ==
    /\ pc = "done"
    /\ raw_name = <<" ", " ">>
    /\ output[Len(output)].k = "error_empty"

\* C10: every dict check_domain returned, every entry of the results mapping
\* and every printed status carries one of the four statuses, never the
\* placeholder Unknown.
C10_StatusIsOneOfFour ==
    /\ checked # <<>> => last_result.status \in Statuses
    /\ \A d \in DOMAIN results : results[d].status \in Statuses
    /\ \A k \in 1..Len(StatusLines) : StatusLines[k].st \in Statuses

C10_Witness ==
    /\ pc = "done"
    /\ {results[d].status : d \in DOMAIN results} = {"Skipped", "Available", "Error"}
====
